---- MODULE Spec2Model ----
(***************************************************************************)
(* Model of src/mamafile.py: the build target `dlib`, a mama.BuildTarget   *)
(* with the three lifecycle callbacks dependencies(), configure() and      *)
(* package().                                                              *)
(*                                                                         *)
(* The target's state is what the callbacks hand to the orchestrator:      *)
(* the cmake option sequence, the compiler-flag sequence, the product      *)
(* injections and the exported system libraries.  `calls` records every    *)
(* orchestrator method the callbacks invoke, in invocation order.  `pc`    *)
(* is the position of the build inside the callbacks: one step per         *)
(* statement of the source.                                                *)
(*                                                                         *)
(* A cmake option 'KEY=VALUE' is the record [key |-> KEY, value |-> VALUE] *)
(* (every option literal of the source holds exactly one '=').             *)
(***************************************************************************)
EXTENDS Naturals, Sequences, FiniteSets

VARIABLES linux, macos, ios, openblas,
          pc, deps, cmake_opts, cl_flags, injected, syslibs, calls

vars == <<linux, macos, ios, openblas,
          pc, deps, cmake_opts, cl_flags, injected, syslibs, calls>>

Opt(k, v) == [key |-> k, value |-> v]

Key(o) == o.key

(* ---------------------------------------------------------------------- *)
(* configure(): the literals and the branch structure                      *)
(* ---------------------------------------------------------------------- *)

\* mutant: the GIF switch listed last instead of fifth
FixedOptions_reordered ==
    << Opt("DLIB_NO_GUI_SUPPORT", "TRUE"),
       Opt("DLIB_ENABLE_ASSERTS", "OFF"),
       Opt("DLIB_PNG_SUPPORT", "OFF"),
       Opt("DLIB_JPEG_SUPPORT", "OFF"),
       Opt("DLIB_LINK_WITH_SQLITE3", "OFF"),
       Opt("DLIB_USE_CUDA", "OFF"),
       Opt("DLIB_USE_LAPACK", "OFF"),
       Opt("DLIB_GIF_SUPPORT", "OFF") >>

\* mutant: one key listed twice (a later entry overriding an earlier one)
FixedOptions_dupkey ==
    << Opt("DLIB_NO_GUI_SUPPORT", "TRUE"),
       Opt("DLIB_ENABLE_ASSERTS", "OFF"),
       Opt("DLIB_PNG_SUPPORT", "OFF"),
       Opt("DLIB_JPEG_SUPPORT", "OFF"),
       Opt("DLIB_GIF_SUPPORT", "OFF"),
       Opt("DLIB_LINK_WITH_SQLITE3", "OFF"),
       Opt("DLIB_USE_CUDA", "OFF"),
       Opt("DLIB_PNG_SUPPORT", "ON") >>

FixedOptions ==
    << Opt("DLIB_NO_GUI_SUPPORT", "TRUE"),
       Opt("DLIB_ENABLE_ASSERTS", "OFF"),
       Opt("DLIB_PNG_SUPPORT", "OFF"),
       Opt("DLIB_JPEG_SUPPORT", "OFF"),
       Opt("DLIB_GIF_SUPPORT", "OFF"),
       Opt("DLIB_LINK_WITH_SQLITE3", "OFF"),
       Opt("DLIB_USE_CUDA", "OFF"),
       Opt("DLIB_USE_LAPACK", "OFF") >>

\* mutant: the flag is added without the platform test
LinuxFlags_always(lx) ==
    << "-Wno-tautological-constant-compare" >>

\* `if self.linux: self.add_cl_flags(...)`
LinuxFlags(lx) ==
    IF lx THEN << "-Wno-tautological-constant-compare" >> ELSE << >>

\* mutant: `if` in place of `elif`, so the OpenBLAS test also runs on macOS/iOS
BlasOptions_noelif(mc, io, ob) ==
    (IF mc \/ io THEN << Opt("DLIB_USE_BLAS", "ON") >> ELSE << >>)
    \o (IF ob THEN << Opt("DLIB_USE_BLAS", "ON") >>
              ELSE << Opt("DLIB_USE_BLAS", "OFF") >>)

\* mutant: the final else leaves BLAS enabled
BlasOptions_defaulton(mc, io, ob) ==
    IF mc \/ io THEN << Opt("DLIB_USE_BLAS", "ON") >>
    ELSE IF ob THEN << Opt("DLIB_USE_BLAS", "ON") >>
    ELSE << Opt("DLIB_USE_BLAS", "ON") >>

\* the options appended by the if / elif / else on macos, ios, openblas
BlasOptions(mc, io, ob) ==
    IF mc \/ io THEN << Opt("DLIB_USE_BLAS", "ON") >>
    ELSE IF ob THEN << Opt("DLIB_USE_BLAS", "ON") >>
    ELSE << Opt("DLIB_USE_BLAS", "OFF") >>

OpenBlasInjection ==
    [target |-> "dlib", source |-> "OpenBLAS",
     include |-> "OPENBLAS_INCLUDE", libs |-> "OPENBLAS_LIBS"]

\* mutant: the injection is registered whenever openblas is requested
BlasInjections_always(mc, io, ob) ==
    IF ob THEN << OpenBlasInjection >> ELSE << >>

\* the inject_products call of the elif branch
BlasInjections(mc, io, ob) ==
    IF mc \/ io THEN << >>
    ELSE IF ob THEN << OpenBlasInjection >>
    ELSE << >>

(* ---------------------------------------------------------------------- *)
(* package(): the calls it makes, in order                                 *)
(* ---------------------------------------------------------------------- *)

\* mutant: the export is registered for macOS only
PackageSyslibs_maconly(mc, io) ==
    IF mc THEN << "-framework Accelerate" >> ELSE << >>

\* `if self.ios or self.macos: self.export_syslib('-framework Accelerate')`
PackageSyslibs(mc, io) ==
    IF io \/ mc THEN << "-framework Accelerate" >> ELSE << >>

Call(op, arg) == [op |-> op, arg |-> arg]

RECURSIVE CallsOf(_, _)
\* one call of orchestrator method op per element of args
CallsOf(op, args) ==
    IF args = << >> THEN << >>
    ELSE << Call(op, Head(args)) >> \o CallsOf(op, Tail(args))

RECURSIVE Exported(_)
\* the system libraries registered by the export_syslib calls of cs
Exported(cs) ==
    IF cs = << >> THEN << >>
    ELSE (IF Head(cs).op = "export_syslib" THEN << Head(cs).arg >> ELSE << >>)
         \o Exported(Tail(cs))

\* mutant: the export is registered before the default packaging runs
PackageCalls_exportfirst(mc, io) ==
    CallsOf("export_syslib", PackageSyslibs(mc, io))
    \o << Call("default_package", << >>) >>

\* the orchestrator calls of package(), in statement order
PackageCalls(mc, io) ==
    << Call("default_package", << >>) >>
    \o CallsOf("export_syslib", PackageSyslibs(mc, io))

(* ---------------------------------------------------------------------- *)
(* State machine                                                           *)
(* ---------------------------------------------------------------------- *)

Init ==
    /\ linux \in BOOLEAN
    /\ macos \in BOOLEAN
    /\ ios \in BOOLEAN
    /\ openblas \in BOOLEAN
    /\ pc = "Created"
    /\ deps = << >>
    /\ cmake_opts = << >>
    /\ cl_flags = << >>
    /\ injected = << >>
    /\ syslibs = << >>
    /\ calls = << >>

\* dependencies(): pass
Dependencies ==
    /\ pc = "Created"
    /\ pc' = "DependenciesDeclared"
    /\ UNCHANGED <<linux, macos, ios, openblas,
                   deps, cmake_opts, cl_flags, injected, syslibs, calls>>

\* configure(), first statement: add_cmake_options(the eight fixed options)
ConfigureFixed ==
    /\ pc = "DependenciesDeclared"
    /\ cmake_opts' = cmake_opts \o FixedOptions
    /\ calls' = Append(calls, Call("add_cmake_options", FixedOptions))
    /\ pc' = "cfg_linux"
    /\ UNCHANGED <<linux, macos, ios, openblas,
                   deps, cl_flags, injected, syslibs>>

\* configure(), second statement: if self.linux: add_cl_flags(...)
ConfigureLinux ==
    /\ pc = "cfg_linux"
    /\ cl_flags' = cl_flags \o LinuxFlags(linux)
    /\ calls' = calls \o CallsOf("add_cl_flags", LinuxFlags(linux))
    /\ pc' = "cfg_blas"
    /\ UNCHANGED <<linux, macos, ios, openblas,
                   deps, cmake_opts, injected, syslibs>>

\* configure(), third statement: the if / elif / else selecting the backend
ConfigureBlas ==
    /\ pc = "cfg_blas"
    /\ cmake_opts' = cmake_opts \o BlasOptions(macos, ios, openblas)
    /\ injected' = injected \o BlasInjections(macos, ios, openblas)
    /\ calls' = calls
         \o CallsOf("add_cmake_options",
                    << BlasOptions(macos, ios, openblas) >>)
         \o CallsOf("inject_products", BlasInjections(macos, ios, openblas))
    /\ pc' = "Configured"
    /\ UNCHANGED <<linux, macos, ios, openblas, deps, cl_flags, syslibs>>

\* package(), first statement: self.default_package()
PackageDefault ==
    /\ pc = "Configured"
    /\ calls' = calls \o SubSeq(PackageCalls(macos, ios), 1, 1)
    /\ syslibs' = syslibs \o Exported(SubSeq(PackageCalls(macos, ios), 1, 1))
    /\ pc' = "pkg_export"
    /\ UNCHANGED <<linux, macos, ios, openblas,
                   deps, cmake_opts, cl_flags, injected>>

\* mutant: the BLAS switch for Accelerate is set in package()
PackageExport_addsoption ==
    /\ pc = "pkg_export"
    /\ calls' = calls \o Tail(PackageCalls(macos, ios))
    /\ syslibs' = syslibs \o Exported(Tail(PackageCalls(macos, ios)))
    /\ cmake_opts' = IF ios \/ macos
                       THEN Append(cmake_opts, Opt("DLIB_USE_ACCELERATE", "ON"))
                       ELSE cmake_opts
    /\ pc' = "Packaged"
    /\ UNCHANGED <<linux, macos, ios, openblas, deps, cl_flags, injected>>

\* package(), second statement: if self.ios or self.macos: export_syslib(...)
PackageExport ==
    /\ pc = "pkg_export"
    /\ calls' = calls \o Tail(PackageCalls(macos, ios))
    /\ syslibs' = syslibs \o Exported(Tail(PackageCalls(macos, ios)))
    /\ pc' = "Packaged"
    /\ UNCHANGED <<linux, macos, ios, openblas,
                   deps, cmake_opts, cl_flags, injected>>

\* the orchestrator finishes the build after package() returned
Finish ==
    /\ pc = "Packaged"
    /\ pc' = "Done"
    /\ UNCHANGED <<linux, macos, ios, openblas,
                   deps, cmake_opts, cl_flags, injected, syslibs, calls>>

\* The callbacks run in the order the orchestrator is documented to invoke
\* them (dependencies, configure, package); the class itself orders nothing.
Next ==
    \/ Dependencies
    \/ ConfigureFixed
    \/ ConfigureLinux
    \/ ConfigureBlas
    \/ PackageDefault
    \/ PackageExport
    \/ Finish

Spec == Init /\ [][Next]_vars

(* ---------------------------------------------------------------------- *)
(* Vocabulary of the properties                                            *)
(* ---------------------------------------------------------------------- *)

AfterConfigure == pc \in {"Configured", "pkg_export", "Packaged", "Done"}

AfterPackage == pc \in {"Packaged", "Done"}

InConfigure == pc \in {"DependenciesDeclared", "cfg_linux", "cfg_blas"}

InPackage == pc \in {"Configured", "pkg_export"}

CountKey(s, k) == Cardinality({i \in DOMAIN s : Key(s[i]) = k})

CountElem(s, e) == Cardinality({i \in DOMAIN s : s[i] = e})

CountOp(s, op) == Cardinality({i \in DOMAIN s : s[i].op = op})

BlasOn == CountElem(cmake_opts, Opt("DLIB_USE_BLAS", "ON")) > 0

BlasOff == CountElem(cmake_opts, Opt("DLIB_USE_BLAS", "OFF")) > 0

ExpectedFixed ==
    << Opt("DLIB_NO_GUI_SUPPORT", "TRUE"), Opt("DLIB_ENABLE_ASSERTS", "OFF"),
       Opt("DLIB_PNG_SUPPORT", "OFF"), Opt("DLIB_JPEG_SUPPORT", "OFF"),
       Opt("DLIB_GIF_SUPPORT", "OFF"), Opt("DLIB_LINK_WITH_SQLITE3", "OFF"),
       Opt("DLIB_USE_CUDA", "OFF"), Opt("DLIB_USE_LAPACK", "OFF") >>

(* ---------------------------------------------------------------------- *)
(* Properties                                                              *)
(* ---------------------------------------------------------------------- *)

\* C1: once configure() has returned, the option sequence holds exactly one
\* option with key DLIB_USE_BLAS; it is ON when macos or ios or openblas is
\* true and OFF otherwise (so never both ON and OFF, and never neither).
C1_OneBlasOption ==
    AfterConfigure =>
        /\ CountKey(cmake_opts, "DLIB_USE_BLAS") = 1
        /\ (macos \/ ios \/ openblas) => (BlasOn /\ ~BlasOff)
        /\ ~(macos \/ ios \/ openblas) => (BlasOff /\ ~BlasOn)

C1_Witness ==
    /\ pc = "Configured"
    /\ macos /\ openblas
    /\ CountKey(cmake_opts, "DLIB_USE_BLAS") = 1
    /\ BlasOn

\* C2: once configure() has returned, the eight fixed options are the first
\* eight entries of the option sequence, in the order of the source, each
\* occurs exactly once in the whole sequence, and the BLAS option comes
\* after all of them.
C2_FixedOptions ==
    AfterConfigure =>
        /\ Len(cmake_opts) >= 8
        /\ SubSeq(cmake_opts, 1, 8) = ExpectedFixed
        /\ \A k \in 1..8 : CountElem(cmake_opts, ExpectedFixed[k]) = 1
        /\ \A i \in DOMAIN cmake_opts :
               Key(cmake_opts[i]) = "DLIB_USE_BLAS" => i > 8

C2_Witness ==
    /\ pc = "Configured"
    /\ ~linux /\ ~macos /\ ~ios /\ ~openblas
    /\ Len(cmake_opts) = 9
    /\ cmake_opts[8] = Opt("DLIB_USE_LAPACK", "OFF")
    /\ Key(cmake_opts[9]) = "DLIB_USE_BLAS"

\* C3: once configure() has returned, the compiler-flag sequence is exactly
\* <<'-Wno-tautological-constant-compare'>> when linux is true and empty when
\* linux is false, whatever macos, ios and openblas are.
C3_LinuxFlag ==
    AfterConfigure =>
        cl_flags = IF linux THEN << "-Wno-tautological-constant-compare" >>
                            ELSE << >>

C3_Witness ==
    /\ pc = "Configured"
    /\ linux /\ macos
    /\ cl_flags = << "-Wno-tautological-constant-compare" >>

\* C4: once configure() has returned, exactly one product injection (dlib
\* bound to OpenBLAS's OPENBLAS_INCLUDE and OPENBLAS_LIBS) is registered when
\* openblas is true and neither macos nor ios is, and then BLAS is ON; in
\* every other case no injection is registered.
C4_Injection ==
    AfterConfigure =>
        IF openblas /\ ~macos /\ ~ios
        THEN /\ injected = << [target |-> "dlib", source |-> "OpenBLAS",
                               include |-> "OPENBLAS_INCLUDE",
                               libs |-> "OPENBLAS_LIBS"] >>
             /\ CountOp(calls, "inject_products") = 1
             /\ BlasOn
        ELSE /\ injected = << >>
             /\ CountOp(calls, "inject_products") = 0

C4_Witness ==
    /\ pc = "Configured"
    /\ openblas /\ linux /\ ~macos /\ ~ios
    /\ Len(injected) = 1
    /\ BlasOn

\* C5: once package() has returned, the exported system libraries are
\* exactly <<'-framework Accelerate'>> when macos or ios is true and empty
\* otherwise; nothing is exported before package() runs.
C5_AccelerateExport ==
    /\ AfterPackage =>
           syslibs = IF macos \/ ios THEN << "-framework Accelerate" >>
                                      ELSE << >>
    /\ ~(AfterPackage \/ pc = "pkg_export") => syslibs = << >>

C5_Witness ==
    /\ pc = "Packaged"
    /\ ios /\ ~macos
    /\ syslibs = << "-framework Accelerate" >>

\* C6: once package() has returned, default_package has been called exactly
\* once, and every export_syslib call comes after it in the call order.
C6_DefaultPackageFirst ==
    AfterPackage =>
        /\ CountOp(calls, "default_package") = 1
        /\ \A i, j \in DOMAIN calls :
               (calls[i].op = "default_package"
                /\ calls[j].op = "export_syslib") => i < j

C6_Witness ==
    /\ pc = "Packaged"
    /\ macos
    /\ CountOp(calls, "default_package") = 1
    /\ CountOp(calls, "export_syslib") = 1

\* C7: a step of dependencies() registers no dependency and leaves options,
\* flags and injections unchanged; a step of package() leaves options, flags,
\* injections and dependencies unchanged; so any step that changes options,
\* flags or injections is a step of configure().
C7_OnlyConfigureMutates ==
    [][ /\ (pc = "Created") =>
              (deps' = << >> /\ UNCHANGED <<cmake_opts, cl_flags, injected>>)
        /\ InPackage => UNCHANGED <<cmake_opts, cl_flags, injected, deps>>
        /\ (<<cmake_opts, cl_flags, injected>>' #
            <<cmake_opts, cl_flags, injected>>) => InConfigure ]_vars

C7_Witness ==
    /\ pc = "Packaged"
    /\ macos /\ linux
    /\ syslibs # << >>
    /\ Len(cmake_opts) = 9
    /\ Len(cl_flags) = 1
    /\ deps = << >>

\* C9: once configure() has returned, the option sequence has exactly nine
\* entries and no two entries have the same key.
C9_DistinctKeys ==
    AfterConfigure =>
        /\ Len(cmake_opts) = 9
        /\ \A i, j \in DOMAIN cmake_opts :
               i # j => Key(cmake_opts[i]) # Key(cmake_opts[j])

C9_Witness ==
    /\ pc = "Configured"
    /\ ios /\ openblas /\ linux
    /\ Len(cmake_opts) = 9
    /\ Cardinality({Key(cmake_opts[i]) : i \in DOMAIN cmake_opts}) = 9

\* C10: once package() has returned, BLAS is ON if and only if the OpenBLAS
\* injection or the '-framework Accelerate' export is registered; the two are
\* never both registered, and with BLAS OFF neither is.
C10_BlasHasProvider ==
    AfterPackage =>
        /\ BlasOn <=> (OpenBlasInjection \in {injected[i] : i \in DOMAIN injected}
                       \/ CountElem(syslibs, "-framework Accelerate") > 0)
        /\ ~(injected # << >> /\ syslibs # << >>)
        /\ BlasOff => (injected = << >> /\ syslibs = << >>)

C10_Witness ==
    /\ pc = "Done"
    /\ openblas /\ ~macos /\ ~ios
    /\ BlasOn
    /\ injected # << >>
    /\ syslibs = << >>

====
